---- MODULE Spec2Model ----
(***************************************************************************)
(* SimplSite (src/src/SimplSite.ts): the request handler of a server-side  *)
(* rendered markdown site.  handleRequest serves a static asset or routes  *)
(* the path to a content source and renders it through getContent, the     *)
(* markdown processor, the plugins' transform and extendTemplate hooks and *)
(* TemplateEngine.render; renderContent turns every failure into a 404.    *)
(*                                                                         *)
(* Strings the code inspects (request paths, routes) are sequences of      *)
(* one-character strings; directories are one opaque token.  Every await   *)
(* of the code is a step of the model, its outcome drawn from the outcomes *)
(* the file system or the plugin can produce.                              *)
(***************************************************************************)
EXTENDS Integers, Sequences, FiniteSets, TLC

\* ------------------------------------------------------------------ bounds
MaxStemLen == 3    \* request paths: a stem of at most this many characters (+ ".md")
MaxSources == 2    \* configured content sources
MaxPlugins == 2    \* configured plugins
MaxCalls == 2      \* render calls (requests) in flight at once
MaxEarly == 1      \* requests that arrive while the plugins are still loading

\* --------------------------------------------------------------- constants
Md == <<".", "m", "d">>
Index == <<"i", "n", "d", "e", "x">>
NotFoundPath == <<"4", "0", "4", ".", "m", "d">>
NotFoundRoute == <<"/", "4", "0", "4">>
HtmlContentType == "text/html"
OctetStream == "application/octet-stream"
DefaultAssetsDir == <<"assets">>
DefaultSiteTitle == "My Simpl Site"
Null == [kind |-> "null"]

\* The literal of renderContent's last return.
HardFallback ==
  [kind |-> "literal",
   text |-> "<h1>404 - Page Not Found</h1><p>The requested page could not be found.</p>"]

\* ----------------------------------------------------------------- strings
SeqsUpTo(S, n) == UNION {[1..k -> S] : k \in 0..n}

Max(S) == CHOOSE x \in S : \A y \in S : y <= x
Min(S) == CHOOSE x \in S : \A y \in S : x <= y

\* String.prototype.startsWith
startsWith(s, p) == Len(p) <= Len(s) /\ SubSeq(s, 1, Len(p)) = p

\* String.prototype.endsWith
endsWith(s, p) == Len(p) <= Len(s) /\ SubSeq(s, Len(s) - Len(p) + 1, Len(s)) = p

\* String.prototype.slice(n), 0 <= n
slice(s, n) == SubSeq(s, n + 1, Len(s))

\* join(dir, p) of @std/path for a directory token and a relative path: an
\* empty segment is dropped.  The normalisation of ".", ".." and repeated
\* separators inside p is not modelled: the result only names the file read.
join(dir, p) == IF p = <<>> THEN dir ELSE dir \o <<"/">> \o p

\* extname of @std/path: from the last "." of the last segment, unless that
\* "." starts the segment.
extname(p) ==
  LET slashes == {k \in 1..Len(p) : p[k] = "/"}
      base == IF slashes = {} THEN p ELSE slice(p, Max(slashes))
      dots == {k \in 2..Len(base) : base[k] = "."}
  IN IF dots = {} \/ base = <<".", ".">> THEN <<>> ELSE slice(base, Max(dots) - 1)

\* contentType of @std/media-types on an extension: of the extensions the
\* model's alphabet can spell only ".md" is in the table.
contentType(ext) == IF ext = Md THEN "text/markdown; charset=UTF-8" ELSE ""

\* serveStaticFile: contentType(extname(fullPath)) || "application/octet-stream"
mimeType(fullPath) ==
  IF contentType(extname(fullPath)) = "" THEN OctetStream
  ELSE contentType(extname(fullPath))

\* ----------------------------------------------------------- configuration
TypeNames == <<"page", "post", "doc", "note">>
DirNames == <<"content", "content/posts", "content/docs", "content/notes">>

Routes == {<<>>, <<"a">>, <<"a", "/">>, <<"a", ".">>}

Stems == SeqsUpTo({"a", "/"}, MaxStemLen)

RequestPaths ==
  {s \o x : s \in Stems, x \in {<<>>, Md}}
    \cup {Index, NotFoundPath, <<"4", "0", "4">>, <<"a", "/">> \o NotFoundPath}

\* A ContentSource list: types are unique (the type names the source).
SourceLists ==
  UNION {{[i \in 1..k |-> [type |-> TypeNames[i], path |-> <<DirNames[i]>>, route |-> r[i]]]
            : r \in [1..k -> Routes]} : k \in 0..MaxSources}

\* What the plugin registry resolves a name to: the hooks of the class.  A
\* name outside the registry makes getPluginClass throw.
PluginRegistry ==
  [A |-> [transform |-> TRUE, metadata |-> TRUE, extendTemplate |-> TRUE],
   B |-> [transform |-> TRUE, metadata |-> TRUE, extendTemplate |-> TRUE],
   T |-> [transform |-> TRUE, metadata |-> FALSE, extendTemplate |-> FALSE],
   E |-> [transform |-> FALSE, metadata |-> FALSE, extendTemplate |-> TRUE]]

PluginNames == DOMAIN PluginRegistry \cup {"missing"}

\* config.plugins: plugin names are distinct (the plugin map is keyed by name).
PluginConfigLists ==
  {c \in SeqsUpTo(PluginNames, MaxPlugins) : \A j, k \in 1..Len(c) : j # k => c[j] # c[k]}

\* Map.prototype.set on an insertion-ordered map kept as a sequence of entries.
mapSet(m, name, plugin) ==
  IF \E k \in 1..Len(m) : m[k].name = name
  THEN [k \in 1..Len(m) |-> IF m[k].name = name THEN [name |-> name, plugin |-> plugin] ELSE m[k]]
  ELSE Append(m, [name |-> name, plugin |-> plugin])

\* initializePlugins without the try around a plugin: the first failure ends it.
RECURSIVE initializePluginsFatal(_, _)
initializePluginsFatal(m, pluginConfigs) ==
  IF pluginConfigs = <<>> THEN m
  ELSE LET name == Head(pluginConfigs)
       IN IF name \in DOMAIN PluginRegistry
          THEN initializePluginsFatal(mapSet(m, name, PluginRegistry[name]), Tail(pluginConfigs))
          ELSE m

\* initializePlugins: a plugin whose lookup fails is logged and skipped.
RECURSIVE initializePlugins(_, _)
initializePlugins(m, pluginConfigs) ==
  IF pluginConfigs = <<>> THEN m
  ELSE LET name == Head(pluginConfigs)
       IN initializePlugins(
            IF name \in DOMAIN PluginRegistry THEN mapSet(m, name, PluginRegistry[name]) ELSE m,
            Tail(pluginConfigs))

\* ------------------------------------------------------------------- state
VARIABLES
  contentSources,       \* this.contentSources
  defaultContentType,   \* this.defaultContentType
  pluginConfigs,        \* config.plugins
  plugins,              \* this.plugins, in Map order
  request,              \* the path handleRequest is called with
  pc,                   \* where the handler is
  path,                 \* handleRequest's path
  originalPath,         \* handleRequest's originalPath
  frames,               \* the active renderContent calls, outermost first
  content,              \* the content of the active render
  metadata,             \* the metadata of the active render
  templateContext,      \* the templateContext of the active render
  i,                    \* position in this.plugins.values()
  error,                \* the error a renderContent catch block holds
  result,               \* the value a renderContent call returns
  response,             \* what handleRequest resolved to
  thrown,               \* what handleRequest rejected with
  log                   \* what has happened, in order

\* TemplateEngine (src/src/utils/TemplateEngine.ts) and the files it reads.
VARIABLES
  compilerOptions,      \* this.config.compilerOptions
  templateFiles,        \* the files under baseDir: path -> file
  partialsDir,          \* the directory baseDir/partials
  compiledTemplates,    \* this.compiledTemplates, in Map order
  partials,             \* the partials registered with this.handlebars
  registration,         \* where the registerPartials() call of the constructor is
  renders               \* the render calls: caller -> call

engine == <<compilerOptions, templateFiles, partialsDir, compiledTemplates, partials,
            registration, renders>>

\* The site from its constructor on, with several requests in flight.
VARIABLES
  variant,              \* which initializePlugins the site has
  contentFiles,         \* the content files that exist
  loading,              \* where the initializePlugins call of the constructor is
  constructed,          \* whether the constructor has returned
  requests              \* the requests: caller -> the locals of its handleRequest

site == <<variant, contentFiles, loading, constructed, requests>>

config == <<contentSources, defaultContentType, pluginConfigs, plugins, request>>
locals == <<content, metadata, templateContext, i>>
vars == <<config, pc, path, originalPath, frames, locals, error, result, response, thrown, log,
          engine, site>>

Event(ev, depth, arg) == [ev |-> ev, depth |-> depth, arg |-> arg]

ReadOutcomes == {"ok", "NotFound", "PermissionDenied"}
HookOutcomes == {"ok", "NotFound", "Error"}

\* ---------------------------------------------------------- pure functions
\* normalizePath without the mapping of the empty path to "index".
normalizePathNoIndex(p) == IF Len(p) > 0 /\ p[1] = "/" THEN Tail(p) ELSE p

\* handleRequest: path.replace(/^\//, ''), '' becomes 'index'
normalizePath(p) ==
  LET q == IF Len(p) > 0 /\ p[1] = "/" THEN Tail(p) ELSE p
  IN IF q = <<>> THEN Index ELSE q

\* withSuffix that appends ".md" to every path.
withSuffixAlways(p) == p \o Md

\* handleRequest: path.endsWith('.md') ? path : path + '.md'
withSuffix(p) == IF endsWith(p, Md) THEN p ELSE p \o Md

\* handleRequest's loop: the index of the first source whose route starts
\* originalPath, 0 if the loop ends without a match.
RECURSIVE firstMatchFrom(_, _, _)
firstMatchFrom(sources, p, k) ==
  IF k > Len(sources) THEN 0
  ELSE IF startsWith(p, sources[k].route) THEN k
  ELSE firstMatchFrom(sources, p, k + 1)

\* firstMatch that lets the last matching source win.
lastMatch(sources, p) ==
  LET M == {k \in 1..Len(sources) : startsWith(p, sources[k].route)}
  IN IF M = {} THEN 0 ELSE Max(M)

firstMatch(sources, p) == firstMatchFrom(sources, p, 1)

\* handleRequest: the renderContent call it makes for a normalized path.
renderCall(sources, default, p) ==
  LET k == firstMatch(sources, p)
  IN IF k # 0
     THEN [path |-> slice(withSuffix(p), Len(sources[k].route)),
           type |-> sources[k].type,
           route |-> <<"/">> \o p]
     ELSE [path |-> withSuffix(p), type |-> default, route |-> <<"/">> \o p]

\* getContent: this.contentSources.find(src => src.type === type), 0 if undefined
RECURSIVE findSourceFrom(_, _, _)
findSourceFrom(sources, type, k) ==
  IF k > Len(sources) THEN 0
  ELSE IF sources[k].type = type THEN k
  ELSE findSourceFrom(sources, type, k + 1)

findSource(sources, type) == findSourceFrom(sources, type, 1)

\* unknownContentType that throws a NotFound error.
unknownContentTypeNotFound(type) == [name |-> "NotFound", message |-> "Unknown content type"]

\* getContent: the error thrown for a type no source has.
unknownContentType(type) == [name |-> "Error", message |-> "Unknown content type"]

\* staticFile that never finds the file.
staticFileAbsent(outcome, fullPath) == Null

\* serveStaticFile: what it returns for the outcome of Deno.readFile.
staticFile(outcome, fullPath) ==
  IF outcome = "ok"
  THEN [content |-> [kind |-> "asset", file |-> fullPath], contentType |-> mimeType(fullPath)]
  ELSE Null

\* The text of a file and what the markdown processor makes of it.
fileText(fullPath) == [kind |-> "markdown", file |-> fullPath]
markdownExecute(raw) ==
  [content |-> [kind |-> "html", file |-> raw.file, chain |-> <<>>],
   metadata |-> ("x" :> "frontmatter")]

\* mergeMetadata that keeps the earlier value of a key.
mergeMetadataEarlierWins(old, new) == old @@ new

\* { ...metadata, ...result.metadata }
mergeMetadata(old, new) == new @@ old

\* A plugin's transform hook: it marks the content it was given and may
\* return metadata of its own.
pluginTransform(name, plugin, c) ==
  [content |-> [c EXCEPT !.chain = Append(@, name)],
   metadata |-> IF plugin.metadata THEN ("x" :> name) @@ (name :> "set") ELSE Null]

\* processContent's loop body for the result of a transform hook.
applyTransform(c, m, r) ==
  [content |-> r.content,
   metadata |-> IF r.metadata # Null THEN mergeMetadata(m, r.metadata) ELSE m]

\* A plugin's extendTemplate hook: it returns a complete context.
pluginExtendTemplate(name, ctx) == [ctx EXCEPT !.extended = Append(@, name)]

\* hookThrows with every hook call caught.
hookNeverThrows(outcome) == FALSE

\* An awaited hook that rejects throws out of the plugin loop.
hookThrows(outcome) == outcome # "ok"

\* shouldRetry without the guard on the path.
shouldRetryUnguarded(err, p) == err.name = "NotFound"

\* shouldRetry for an error of any kind.
shouldRetryAnyError(err, p) == p # NotFoundPath

\* renderContent's catch: whether the 404 page is rendered.
shouldRetry(err, p) == err.name = "NotFound" /\ p # NotFoundPath

\* retryResult that passes the nested status on.
retryResultKeepsStatus(r) == [content |-> r.content, status |-> r.status]

\* renderContent's catch: what the outer call returns from the nested result.
retryResult(r) == [content |-> r.content, status |-> 404]

\* renderContent's catch: the default error message.
hardFallbackResult == [content |-> HardFallback, status |-> 404]

\* ---------------------------------------------------------- TemplateEngine
\* The defaults of the TemplateEngine constructor; join drops the trailing
\* separator of 'layouts/' and 'partials/'.
EngineConfig ==
  [baseDir |-> <<"templates">>,
   extname |-> <<".", "h", "b", "s">>,
   layoutsDir |-> <<"layouts">>,
   partialsDir |-> <<"partials">>,
   defaultLayout |-> <<"base">>]

\* render: join(baseDir, `${templateName}${extname}`)
templatePath(templateName) ==
  join(EngineConfig.baseDir, <<templateName>> \o EngineConfig.extname)

\* render: join(baseDir, layoutsDir, `${defaultLayout}${extname}`)
layoutPath ==
  join(join(EngineConfig.baseDir, EngineConfig.layoutsDir),
       EngineConfig.defaultLayout \o EngineConfig.extname)

\* A file of the file system, and the absence of one.
Absent == [kind |-> "absent"]
File(text) == [kind |-> "file", text |-> text]

\* The source of a template is a sequence of tokens: literal text, {{name}}
\* and {{{name}}}.
Lit(s) == [t |-> "lit", s |-> s, raw |-> TRUE]
Var(name) == [t |-> "var", s |-> <<name>>, raw |-> FALSE]
RawVar(name) == [t |-> "var", s |-> <<name>>, raw |-> TRUE]

\* Handlebars.Utils.escapeExpression, a character at a time; of the
\* characters it escapes the model's texts hold "&", "<", ">" and "=".
escapeChar(ch) ==
  CASE ch = "&" -> <<"&", "a", "m", "p", ";">>
    [] ch = "<" -> <<"&", "l", "t", ";">>
    [] ch = ">" -> <<"&", "g", "t", ";">>
    [] ch = "=" -> <<"&", "#", "x", "3", "D", ";">>
    [] OTHER -> <<ch>>

RECURSIVE escapeExpression(_)
escapeExpression(s) ==
  IF s = <<>> THEN <<>> ELSE escapeChar(Head(s)) \o escapeExpression(Tail(s))

\* The value a template sees for a name: a name the context lacks prints nothing.
lookup(context, name) == IF name \in DOMAIN context THEN context[name] ELSE <<>>

\* this.handlebars.compile(text, compilerOptions): the function it returns
\* is kept as the text and the options it closes over.
compile(text, options) == [kind |-> "template", source |-> text, noEscape |-> options.noEscape]

\* The text a compiled template prints for a context: {{name}} is escaped
\* unless the template was compiled with noEscape, {{{name}}} never is.
RECURSIVE expand(_, _, _)
expand(source, noEscape, context) ==
  IF source = <<>> THEN <<>>
  ELSE LET tok == Head(source)
           out == IF tok.t = "lit" THEN tok.s
                  ELSE IF tok.raw \/ noEscape THEN lookup(context, tok.s[1])
                  ELSE escapeExpression(lookup(context, tok.s[1]))
       IN out \o expand(Tail(source), noEscape, context)

\* template(context)
applyTemplate(template, context) == expand(template.source, template.noEscape, context)

\* layoutContext that leaves the body out.
layoutContextNoBody(context, body) == context

\* render: { ...context, body: result }
layoutContext(context, body) == ("body" :> body) @@ context

\* cacheGet that takes the first entry whatever its key.
cacheGetAny(m, key) == IF m = <<>> THEN Null ELSE m[1].value

\* cacheGet that never finds an entry.
cacheGetNothing(m, key) == Null

\* Map.prototype.get on this.compiledTemplates: Null stands for undefined.
cacheGet(m, key) ==
  IF \E k \in 1..Len(m) : m[k].key = key
  THEN m[CHOOSE k \in 1..Len(m) : m[k].key = key].value
  ELSE Null

\* cacheSet that adds an entry on every call.
cacheSetAppend(m, key, value) == Append(m, [key |-> key, value |-> value])

\* Map.prototype.set on this.compiledTemplates
cacheSet(m, key, value) ==
  IF \E k \in 1..Len(m) : m[k].key = key
  THEN [k \in 1..Len(m) |-> IF m[k].key = key THEN [key |-> key, value |-> value] ELSE m[k]]
  ELSE Append(m, [key |-> key, value |-> value])

\* templateNotFound that trusts a cached entry.
templateNotFoundUnlessCached(file, cached) == file = Absent /\ cached = Null

\* render: !await exists(templatePath), whatever the cache holds
templateNotFound(file, cached) == file = Absent

\* registerPartials: dirEntry.isFile && dirEntry.name.endsWith(extname)
isPartial(dirEntry) == dirEntry.isFile /\ endsWith(dirEntry.name, EngineConfig.extname)

\* registerPartials: dirEntry.name.slice(0, -extname.length)
partialName(name) == SubSeq(name, 1, Len(name) - Len(EngineConfig.extname))

\* The templates, layouts and contexts of the model.
TitleTemplate == <<Lit(<<"<", "p", ">">>), Var("title"), Lit(<<"<", "/", "p", ">">>)>>
EscapedLayout ==
  <<Lit(<<"<", "h", "t", "m", "l", ">">>), Var("body"), Lit(<<"<", "/", "h", "t", "m", "l", ">">>)>>
RawLayout ==
  <<Lit(<<"<", "h", "t", "m", "l", ">">>), RawVar("body"), Lit(<<"<", "/", "h", "t", "m", "l", ">">>)>>
ContentTemplate(type) ==
  <<Lit(<<"<", type, ">">>), RawVar("content"), Lit(<<"|">>), Var("x"), Lit(<<"|">>),
    Var("extended"), Lit(<<"<", "/", type, ">">>)>>
Hi == ("title" :> <<"h", "i">>)

TemplatePaths == {templatePath(TypeNames[1]), templatePath(TypeNames[2]), layoutPath}

\* The files a partials directory lists.
PartialsListing ==
  [kind |-> "dir",
   entries |-> <<[name |-> <<"n", "a", "v", ".", "h", "b", "s">>, isFile |-> TRUE],
                 [name |-> <<"o", "l", "d", ".", "h", "b", "s">>, isFile |-> FALSE],
                 [name |-> <<"n", "a", "v", ".", "t", "x", "t">>, isFile |-> TRUE]>>]

Callers == 1..MaxCalls

\* A render call that has not been made.
NoCall ==
  [pc |-> "idle", templateName |-> "", context |-> <<>>, body |-> Null, result |-> Null,
   error |-> Null, compiled |-> {}, dirty |-> FALSE]

\* The engine of a site whose templates are in place and whose partials are
\* registered, with no render under way.
EngineAtRest ==
  /\ compilerOptions = [noEscape |-> FALSE]
  /\ templateFiles = [p \in TemplatePaths |-> Absent]
  /\ partialsDir = Absent
  /\ compiledTemplates = <<>>
  /\ partials = <<>>
  /\ registration = [pc |-> "done", k |-> 1]
  /\ renders = [c \in Callers |-> NoCall]

\* No site is started.
SiteAtRest ==
  /\ variant = "registry"
  /\ contentFiles = {}
  /\ loading = [pc |-> "done", k |-> 1]
  /\ constructed = TRUE
  /\ requests = <<>>

\* ----------------------------------------------------------------- initial
InitHandler ==
  /\ pc = "idle"
  /\ path = <<>>
  /\ originalPath = <<>>
  /\ frames = <<>>
  /\ content = Null
  /\ metadata = Null
  /\ templateContext = Null
  /\ i = 0
  /\ error = Null
  /\ result = Null
  /\ response = Null
  /\ thrown = Null
  /\ log = <<>>

\* Every source list and request path, without plugins.
InitRouting ==
  /\ contentSources \in SourceLists
  /\ defaultContentType \in {TypeNames[1], TypeNames[2]}
  /\ pluginConfigs = <<>>
  /\ request \in RequestPaths

\* Every plugin list, with one routed source and few request paths.
InitPlugins ==
  /\ contentSources = <<[type |-> TypeNames[1], path |-> <<DirNames[1]>>, route |-> <<"a", "/">>]>>
  /\ defaultContentType \in {TypeNames[1], TypeNames[2]}
  /\ pluginConfigs \in PluginConfigLists
  /\ request \in {<<"a">>, <<"a", "/", "a">>}

Init ==
  /\ InitRouting \/ InitPlugins
  /\ plugins = initializePlugins(<<>>, pluginConfigs)
  /\ InitHandler
  /\ EngineAtRest
  /\ SiteAtRest

\* ----------------------------------------------------------------- actions
Depth == Len(frames)
Frame == frames[Len(frames)]

\* handleRequest, up to the read of the static file.
handleRequest ==
  /\ pc = "idle"
  /\ path' = normalizePath(request)
  /\ pc' = "serveStaticFile"
  /\ log' = Append(log, Event("handleRequest", 0, request))
  /\ UNCHANGED <<config, engine, site, originalPath, frames, locals, error, result, response, thrown>>

\* serveStaticFile and handleRequest's use of its result.
serveStaticFile ==
  /\ pc = "serveStaticFile"
  /\ \E outcome \in ReadOutcomes :
       LET fullPath == join(DefaultAssetsDir, path)
           file == staticFile(outcome, fullPath)
       IN /\ log' = Append(log, Event("readFile", 0, [file |-> fullPath, outcome |-> outcome]))
          /\ IF outcome \notin {"ok", "NotFound"}
             THEN /\ thrown' = [name |-> outcome]
                  /\ pc' = "failed"
                  /\ UNCHANGED response
             ELSE IF file # Null
             THEN /\ response' = [content |-> file.content, contentType |-> file.contentType,
                                  status |-> 200]
                  /\ pc' = "done"
                  /\ UNCHANGED thrown
             ELSE /\ pc' = "route"
                  /\ UNCHANGED <<response, thrown>>
  /\ UNCHANGED <<config, engine, site, path, originalPath, frames, locals, error, result>>

\* handleRequest: the suffix, the route match and the call of renderContent.
routeRequest ==
  /\ pc = "route"
  /\ originalPath' = path
  /\ path' = withSuffix(path)
  /\ LET call == renderCall(contentSources, defaultContentType, path)
     IN /\ frames' = <<call>>
        /\ log' = Append(log, Event("renderContent", 1, call))
  /\ pc' = "getContent"
  /\ UNCHANGED <<config, engine, site, locals, error, result, response, thrown>>

\* getContent
getContent ==
  /\ pc = "getContent"
  /\ LET k == findSource(contentSources, Frame.type)
     IN IF k = 0
        THEN /\ error' = unknownContentType(Frame.type)
             /\ pc' = "catch"
             /\ log' = Append(log, Event("unknownContentType", Depth, Frame.type))
             /\ UNCHANGED content
        ELSE \E outcome \in ReadOutcomes :
               LET fullPath == join(contentSources[k].path, Frame.path)
               IN /\ log' = Append(log, Event("readTextFile", Depth,
                                              [file |-> fullPath, outcome |-> outcome]))
                  /\ IF outcome = "ok"
                     THEN /\ content' = fileText(fullPath)
                          /\ pc' = "processContent"
                          /\ UNCHANGED error
                     ELSE /\ error' = [name |-> outcome]
                          /\ pc' = "catch"
                          /\ UNCHANGED content
  /\ UNCHANGED <<config, engine, site, path, originalPath, frames, metadata, templateContext, i,
                 result, response, thrown>>

\* processContent: the markdown processor, before the plugin loop.
processContent ==
  /\ pc = "processContent"
  /\ \E outcome \in {"ok", "Error"} :
       /\ log' = Append(log, Event("markdown", Depth, outcome))
       /\ IF outcome = "ok"
          THEN /\ content' = markdownExecute(content).content
               /\ metadata' = markdownExecute(content).metadata
               /\ i' = 1
               /\ pc' = "transform"
               /\ UNCHANGED error
          ELSE /\ error' = [name |-> outcome]
               /\ pc' = "catch"
               /\ UNCHANGED <<content, metadata, i>>
  /\ UNCHANGED <<config, engine, site, path, originalPath, frames, templateContext, result, response, thrown>>

\* processContent's loop over the plugins, one plugin a step; after the last
\* one renderContent builds the template context.
transform ==
  /\ pc = "transform"
  /\ IF i > Len(plugins)
     THEN /\ templateContext' = [content |-> content, metadata |-> metadata,
                                 route |-> Frame.route, siteTitle |-> DefaultSiteTitle,
                                 extended |-> <<>>]
          /\ i' = 1
          /\ pc' = "extendTemplate"
          /\ UNCHANGED <<content, metadata, error, log>>
     ELSE IF ~plugins[i].plugin.transform
     THEN /\ i' = i + 1
          /\ UNCHANGED <<pc, content, metadata, templateContext, error, log>>
     ELSE \E outcome \in HookOutcomes :
            LET name == plugins[i].name
                r == pluginTransform(name, plugins[i].plugin, content)
            IN /\ log' = Append(log, Event("transform", Depth,
                                           [plugin |-> name, input |-> content,
                                            outcome |-> outcome]))
               /\ IF ~hookThrows(outcome)
                  THEN /\ content' = applyTransform(content, metadata, r).content
                       /\ metadata' = applyTransform(content, metadata, r).metadata
                       /\ i' = i + 1
                       /\ UNCHANGED <<pc, error>>
                  ELSE /\ error' = [name |-> outcome]
                       /\ pc' = "catch"
                       /\ UNCHANGED <<content, metadata, i>>
               /\ UNCHANGED templateContext
  /\ UNCHANGED <<config, engine, site, path, originalPath, frames, result, response, thrown>>

\* renderContent's loop over the plugins' extendTemplate hooks.
extendTemplate ==
  /\ pc = "extendTemplate"
  /\ IF i > Len(plugins)
     THEN /\ pc' = "render"
          /\ UNCHANGED <<templateContext, i, error, log>>
     ELSE IF ~plugins[i].plugin.extendTemplate
     THEN /\ i' = i + 1
          /\ UNCHANGED <<pc, templateContext, error, log>>
     ELSE \E outcome \in HookOutcomes :
            LET name == plugins[i].name
            IN /\ log' = Append(log, Event("extendTemplate", Depth,
                                           [plugin |-> name, input |-> templateContext,
                                            outcome |-> outcome]))
               /\ IF ~hookThrows(outcome)
                  THEN /\ templateContext' = pluginExtendTemplate(name, templateContext)
                       /\ i' = i + 1
                       /\ UNCHANGED <<pc, error>>
                  ELSE /\ error' = [name |-> outcome]
                       /\ pc' = "catch"
                       /\ UNCHANGED <<templateContext, i>>
  /\ UNCHANGED <<config, engine, site, path, originalPath, frames, content, metadata, result, response, thrown>>

\* TemplateEngine.render, as renderContent sees it: a template that does not
\* exist is an Error ("Template not found"), a template or layout file that
\* goes between exists and readTextFile is a NotFound; the layout, if there
\* is one, wraps the body.
render ==
  /\ pc = "render"
  /\ \E outcome \in {"ok", "Error", "NotFound"}, layout \in BOOLEAN :
       /\ log' = Append(log, Event("render", Depth, [template |-> Frame.type, outcome |-> outcome]))
       /\ IF outcome = "ok"
          THEN /\ result' = [content |-> [kind |-> "page", template |-> Frame.type,
                                          layout |-> layout, context |-> templateContext],
                             status |-> 200]
               /\ pc' = "return"
               /\ UNCHANGED error
          ELSE /\ layout = FALSE
               /\ error' = [name |-> outcome]
               /\ pc' = "catch"
               /\ UNCHANGED result
  /\ UNCHANGED <<config, engine, site, path, originalPath, frames, locals, response, thrown>>

\* renderContent's catch block: the nested render of the 404 page, or the
\* default error message.
catch ==
  /\ pc = "catch"
  /\ IF shouldRetry(error, Frame.path)
     THEN LET call == [path |-> NotFoundPath, type |-> defaultContentType, route |-> NotFoundRoute]
          IN /\ frames' = Append(frames, call)
             /\ log' = Append(log, Event("renderContent", Depth + 1, call))
             /\ pc' = "getContent"
             /\ UNCHANGED result
     ELSE /\ result' = hardFallbackResult
          /\ pc' = "return"
          /\ UNCHANGED <<frames, log>>
  /\ UNCHANGED <<config, engine, site, path, originalPath, locals, error, response, thrown>>

\* A renderContent call returns: to the catch block of the call that retried,
\* or to handleRequest, which answers with text/html.
return ==
  /\ pc = "return"
  /\ frames' = SubSeq(frames, 1, Len(frames) - 1)
  /\ log' = Append(log, Event("return", Depth, result))
  /\ IF Len(frames) > 1
     THEN /\ result' = retryResult(result)
          /\ UNCHANGED <<pc, response>>
     ELSE /\ response' = [content |-> result.content, contentType |-> HtmlContentType,
                          status |-> result.status]
          /\ pc' = "done"
          /\ UNCHANGED result
  /\ UNCHANGED <<config, engine, site, path, originalPath, locals, error, thrown>>

Next ==
  \/ handleRequest
  \/ serveStaticFile
  \/ routeRequest
  \/ getContent
  \/ processContent
  \/ transform
  \/ extendTemplate
  \/ render
  \/ catch
  \/ return

Spec == Init /\ [][Next]_vars

\* ------------------------------------------------- TemplateEngine actions
handler == <<config, pc, path, originalPath, frames, locals, error, result, response, thrown, log>>

Text(s) == [kind |-> "text", text |-> s]
TemplateNotFoundError == [name |-> "Error", message |-> "Template not found"]
CachedPaths == {compiledTemplates[k].key : k \in DOMAIN compiledTemplates}

\* render is called: it runs to its first await, exists(templatePath).
callRender(c, templateName, context) ==
  /\ renders[c].pc \in {"idle", "returned", "threw"}
  /\ renders' = [renders EXCEPT ![c] = [NoCall EXCEPT !.pc = "exists",
                                                       !.templateName = templateName,
                                                       !.context = context]]
  /\ UNCHANGED <<compilerOptions, templateFiles, partialsDir, compiledTemplates, partials,
                 registration>>

\* A caller of the engine calls render.
renderCalled(c) ==
  /\ callRender(c, TypeNames[1], Hi)
  /\ UNCHANGED <<handler, site>>

\* render, from the answer of exists(templatePath): template not found, or
\* the cache lookup and, on a hit, the body.
templateExists(c) ==
  /\ renders[c].pc = "exists"
  /\ LET p == templatePath(renders[c].templateName)
         template == cacheGet(compiledTemplates, p)
     IN IF templateNotFound(templateFiles[p], template)
        THEN renders' = [renders EXCEPT ![c].pc = "threw", ![c].error = TemplateNotFoundError]
        ELSE IF template # Null
        THEN renders' = [renders EXCEPT
                           ![c].pc = "layoutExists",
                           ![c].body = Text(applyTemplate(template, renders[c].context))]
        ELSE renders' = [renders EXCEPT ![c].pc = "readTextFile"]
  /\ UNCHANGED <<handler, site, compilerOptions, templateFiles, partialsDir, compiledTemplates,
                 partials, registration>>

\* render, from the text of the template file: compile, cache, body.
templateRead(c) ==
  /\ renders[c].pc = "readTextFile"
  /\ LET p == templatePath(renders[c].templateName)
         template == compile(templateFiles[p].text, compilerOptions)
     IN IF templateFiles[p] = Absent
        THEN /\ renders' = [renders EXCEPT ![c].pc = "threw", ![c].error = [name |-> "NotFound"]]
             /\ UNCHANGED compiledTemplates
        ELSE /\ compiledTemplates' = cacheSet(compiledTemplates, p, template)
             /\ renders' = [renders EXCEPT
                              ![c].pc = "layoutExists",
                              ![c].body = Text(applyTemplate(template, renders[c].context)),
                              ![c].compiled = @ \cup {p}]
  /\ UNCHANGED <<handler, site, compilerOptions, templateFiles, partialsDir, partials, registration>>

\* render, from the answer of exists(layoutPath): the body as it is, or the
\* cache lookup and, on a hit, the layout around the body.
layoutExists(c) ==
  /\ renders[c].pc = "layoutExists"
  /\ LET layout == cacheGet(compiledTemplates, layoutPath)
         r == renders[c]
     IN IF templateFiles[layoutPath] = Absent
        THEN renders' = [renders EXCEPT ![c].pc = "returned", ![c].result = r.body]
        ELSE IF layout # Null
        THEN renders' = [renders EXCEPT
                           ![c].pc = "returned",
                           ![c].result = Text(applyTemplate(layout,
                                                            layoutContext(r.context, r.body.text)))]
        ELSE renders' = [renders EXCEPT ![c].pc = "layoutReadTextFile"]
  /\ UNCHANGED <<handler, site, compilerOptions, templateFiles, partialsDir, compiledTemplates,
                 partials, registration>>

\* render, from the text of the layout file: compile, cache, layout around
\* the body.
layoutRead(c) ==
  /\ renders[c].pc = "layoutReadTextFile"
  /\ LET layout == compile(templateFiles[layoutPath].text, compilerOptions)
         r == renders[c]
     IN IF templateFiles[layoutPath] = Absent
        THEN /\ renders' = [renders EXCEPT ![c].pc = "threw", ![c].error = [name |-> "NotFound"]]
             /\ UNCHANGED compiledTemplates
        ELSE /\ compiledTemplates' = cacheSet(compiledTemplates, layoutPath, layout)
             /\ renders' = [renders EXCEPT
                              ![c].pc = "returned",
                              ![c].result = Text(applyTemplate(layout,
                                                               layoutContext(r.context, r.body.text))),
                              ![c].compiled = @ \cup {layoutPath}]
  /\ UNCHANGED <<handler, site, compilerOptions, templateFiles, partialsDir, partials, registration>>

\* registerPartials, from one step of the directory's iterator: its end, an
\* entry that is no partial, or a partial whose file it goes on to read.  The
\* iterator of a directory that does not exist rejects, and so does the
\* promise of registerPartials, which the constructor dropped.
readDir ==
  /\ registration.pc = "readDir"
  /\ IF partialsDir = Absent
     THEN registration' = [registration EXCEPT !.pc = "rejected"]
     ELSE IF registration.k > Len(partialsDir.entries)
     THEN registration' = [registration EXCEPT !.pc = "done"]
     ELSE IF isPartial(partialsDir.entries[registration.k])
     THEN registration' = [registration EXCEPT !.pc = "readTextFile"]
     ELSE registration' = [registration EXCEPT !.k = @ + 1]
  /\ UNCHANGED <<handler, site, compilerOptions, templateFiles, partialsDir, compiledTemplates,
                 partials, renders>>

\* registerPartials, from the text of a partial's file.
registerPartial ==
  /\ registration.pc = "readTextFile"
  /\ \E outcome \in {"ok", "NotFound"} :
       LET name == partialsDir.entries[registration.k].name
       IN IF outcome = "ok"
          THEN /\ partials' = cacheSet(partials, partialName(name),
                                       [kind |-> "partial", file |-> name])
               /\ registration' = [pc |-> "readDir", k |-> registration.k + 1]
          ELSE /\ registration' = [registration EXCEPT !.pc = "rejected"]
               /\ UNCHANGED partials
  /\ UNCHANGED <<handler, site, compilerOptions, templateFiles, partialsDir, compiledTemplates,
                 renders>>

\* The texts a template file of the model can hold.
FileStates(p) ==
  IF p = layoutPath THEN {Absent, File(EscapedLayout), File(RawLayout)}
  ELSE {Absent, File(TitleTemplate)}

\* Somebody writes or removes a template file; every render called since
\* has seen the files change.
writeFile ==
  /\ \E p \in {templatePath(TypeNames[1]), layoutPath} :
       \E f \in FileStates(p) :
         /\ f # templateFiles[p]
         /\ templateFiles' = [templateFiles EXCEPT ![p] = f]
  /\ renders' = [c \in Callers |->
                   IF renders[c].pc = "idle" THEN renders[c]
                   ELSE [renders[c] EXCEPT !.dirty = TRUE]]
  /\ UNCHANGED <<handler, site, compilerOptions, partialsDir, compiledTemplates, partials,
                 registration>>

\* A TemplateEngine on its own, its partials registered.
InitEngine ==
  /\ contentSources = <<>>
  /\ defaultContentType = TypeNames[1]
  /\ pluginConfigs = <<>>
  /\ plugins = <<>>
  /\ request = <<>>
  /\ InitHandler
  /\ compilerOptions \in {[noEscape |-> FALSE], [noEscape |-> TRUE]}
  /\ templateFiles = [p \in TemplatePaths |->
                        IF p = templatePath(TypeNames[1]) THEN File(TitleTemplate)
                        ELSE IF p = layoutPath THEN File(EscapedLayout)
                        ELSE Absent]
  /\ partialsDir = Absent
  /\ compiledTemplates = <<>>
  /\ partials = <<>>
  /\ registration = [pc |-> "done", k |-> 1]
  /\ renders = [c \in Callers |-> NoCall]
  /\ SiteAtRest

NextEngine ==
  \/ \E c \in Callers : renderCalled(c)
  \/ \E c \in Callers : templateExists(c)
  \/ \E c \in Callers : templateRead(c)
  \/ \E c \in Callers : layoutExists(c)
  \/ \E c \in Callers : layoutRead(c)
  \/ writeFile

SpecEngine == InitEngine /\ [][NextEngine]_vars

\* A TemplateEngine whose constructor has just returned: registerPartials,
\* which it called and did not await, is at the first step of its loop over
\* Deno.readDir(partialsDir); the directory is there or is not.
InitStartup ==
  /\ contentSources = <<>>
  /\ defaultContentType = TypeNames[1]
  /\ pluginConfigs = <<>>
  /\ plugins = <<>>
  /\ request = <<>>
  /\ InitHandler
  /\ compilerOptions = [noEscape |-> FALSE]
  /\ templateFiles = [p \in TemplatePaths |->
                        IF p = templatePath(TypeNames[1]) THEN File(TitleTemplate)
                        ELSE IF p = layoutPath THEN File(RawLayout)
                        ELSE Absent]
  /\ partialsDir \in {Absent, PartialsListing}
  /\ compiledTemplates = <<>>
  /\ partials = <<>>
  /\ registration = [pc |-> "readDir", k |-> 1]
  /\ renders = [c \in Callers |-> NoCall]
  /\ SiteAtRest

NextStartup ==
  \/ readDir
  \/ registerPartial
  \/ \E c \in Callers : renderCalled(c)
  \/ \E c \in Callers : templateExists(c)
  \/ \E c \in Callers : templateRead(c)
  \/ \E c \in Callers : layoutExists(c)
  \/ \E c \in Callers : layoutRead(c)

SpecStartup == InitStartup /\ [][NextStartup]_vars

\* ------------------------------------------------------- the site, started
\* SimplSite from its constructor on, serving several requests at once.  The
\* content files and the templates are fixed and the hooks always succeed,
\* so that what a request gets depends on the interleaving alone.  A request
\* is at the await of a hook or inside TemplateEngine.render, the places
\* where it meets what it shares with others: this.plugins and
\* compiledTemplates.  Its awaits on files (the static file, the content
\* file, the markdown processor) are taken in one step with what follows
\* them, since nothing in the model changes their outcome.

\* Which initializePlugins the site has: that of SimplSite.ts, or that of
\* part_000, with or without a customPluginsDir.
SiteVariants == {"registry", "import", "importNoDir"}

SitePaths == {<<"a">>, <<"b">>, <<"s">>}
SiteAssets == {join(DefaultAssetsDir, <<"s">>)}
SiteSources ==
  <<[type |-> TypeNames[2], path |-> <<DirNames[2]>>, route |-> <<"b">>],
    [type |-> TypeNames[1], path |-> <<DirNames[1]>>, route |-> <<>>]>>
\* The content files: /a is a page, /b a post that is not there, so that its
\* request is answered with the 404 page.
SiteContentFiles ==
  {join(<<DirNames[1]>>, <<"a">> \o Md), join(<<DirNames[1]>>, NotFoundPath)}
SitePluginConfigs == <<"A", "missing", "B">>

\* A request that has not arrived.
NoRequest ==
  [pc |-> "idle", request |-> <<>>, frames |-> <<>>, content |-> Null, metadata |-> Null,
   templateContext |-> Null, i |-> 0, response |-> Null, log |-> <<>>,
   afterStartup |-> FALSE]

\* The template context as the template sees it: every value a text.
templateVars(ctx) ==
  [content |-> ctx.content.file \o ctx.content.chain,
   x |-> <<ctx.metadata["x"]>>,
   route |-> ctx.route,
   siteTitle |-> <<ctx.siteTitle>>,
   extended |-> ctx.extended]

\* The first await of part_000's initializePlugins, if it has one.
firstImport(variantName, configs) ==
  IF variantName = "import" /\ configs # <<>> THEN [pc |-> "import", k |-> 1]
  ELSE [pc |-> "done", k |-> 1]

\* What the site's actions leave alone but for requests and the engine.
siteRest == <<contentSources, defaultContentType, pluginConfigs, request, pc, path,
              originalPath, frames, locals, error, result, response, thrown, log, variant,
              contentFiles>>

\* new SimplSite(config): the constructor runs initializePlugins, to its end
\* (SimplSite.ts, and part_000 without a customPluginsDir, which loads
\* nothing) or to its first await import(pluginPath) (part_000).
construct ==
  /\ ~constructed
  /\ constructed' = TRUE
  /\ plugins' = IF variant = "registry" THEN initializePlugins(<<>>, pluginConfigs) ELSE <<>>
  /\ loading' = firstImport(variant, pluginConfigs)
  /\ UNCHANGED <<siteRest, engine, requests>>

\* part_000's initializePlugins, from the outcome of one import: the plugin
\* is constructed and set, or the error is logged.
importPlugin ==
  /\ loading.pc = "import"
  /\ plugins' = initializePlugins(plugins, <<pluginConfigs[loading.k]>>)
  /\ loading' = IF loading.k = Len(pluginConfigs) THEN [pc |-> "done", k |-> loading.k]
                ELSE [pc |-> "import", k |-> loading.k + 1]
  /\ UNCHANGED <<siteRest, engine, constructed, requests>>

SiteFrame(q) == q.frames[Len(q.frames)]
SiteEvent(ev, q, arg) == [ev |-> ev, depth |-> Len(q.frames), arg |-> arg]

\* toNextHook without processContent's loop: the transform hooks are passed
\* over.
RECURSIVE toNextHookNoTransform(_)
toNextHookNoTransform(q) ==
  IF q.pc = "transform"
  THEN toNextHookNoTransform([q EXCEPT !.pc = "extendTemplate",
                                       !.i = 1,
                                       !.templateContext =
                                          [content |-> q.content, metadata |-> q.metadata,
                                           route |-> SiteFrame(q).route,
                                           siteTitle |-> DefaultSiteTitle, extended |-> <<>>]])
  ELSE IF q.i > Len(plugins) THEN [q EXCEPT !.pc = "render"]
       ELSE IF ~plugins[q.i].plugin.extendTemplate
       THEN toNextHookNoTransform([q EXCEPT !.i = @ + 1])
       ELSE q

\* The plugin loops, from position q.i to the next hook the request awaits:
\* plugins without the hook are passed over; at the end of processContent's
\* loop renderContent builds the template context and starts its own loop,
\* at whose end it calls TemplateEngine.render.
RECURSIVE toNextHook(_)
toNextHook(q) ==
  IF q.pc = "transform"
  THEN IF q.i > Len(plugins)
       THEN toNextHook([q EXCEPT !.pc = "extendTemplate",
                                 !.i = 1,
                                 !.templateContext =
                                    [content |-> q.content, metadata |-> q.metadata,
                                     route |-> SiteFrame(q).route,
                                     siteTitle |-> DefaultSiteTitle, extended |-> <<>>]])
       ELSE IF ~plugins[q.i].plugin.transform THEN toNextHook([q EXCEPT !.i = @ + 1])
       ELSE q
  ELSE IF q.i > Len(plugins) THEN [q EXCEPT !.pc = "render"]
       ELSE IF ~plugins[q.i].plugin.extendTemplate THEN toNextHook([q EXCEPT !.i = @ + 1])
       ELSE q

\* A renderContent call returns: to the catch block that retried, or to
\* handleRequest, which answers and whose locals are gone.
RECURSIVE returnResult(_, _)
returnResult(q, res) ==
  IF Len(q.frames) > 1
  THEN returnResult([q EXCEPT !.frames = SubSeq(@, 1, Len(@) - 1)], retryResult(res))
  ELSE [NoRequest EXCEPT !.pc = "done",
                         !.request = q.request,
                         !.log = q.log,
                         !.afterStartup = q.afterStartup,
                         !.response = [content |-> res.content,
                                       contentType |-> HtmlContentType,
                                       status |-> res.status]]

\* renderContent is called (startRenderContent: getContent and the markdown
\* processor, up to the first hook), and its catch block (catchError).
RECURSIVE startRenderContent(_, _)
RECURSIVE catchError(_, _)
startRenderContent(q, call) ==
  LET called == [q EXCEPT !.frames = Append(@, call)]
      k == findSource(contentSources, call.type)
      fullPath == join(contentSources[k].path, call.path)
      md == markdownExecute(fileText(fullPath))
  IN IF k = 0 THEN catchError(called, unknownContentType(call.type))
     ELSE IF fullPath \notin contentFiles THEN catchError(called, [name |-> "NotFound"])
     ELSE toNextHook([called EXCEPT !.pc = "transform",
                                    !.content = md.content,
                                    !.metadata = md.metadata,
                                    !.i = 1,
                                    !.log = Append(@, SiteEvent("getContent", called, fullPath))])

catchError(q, err) ==
  IF shouldRetry(err, SiteFrame(q).path)
  THEN startRenderContent(q, [path |-> NotFoundPath, type |-> defaultContentType,
                              route |-> NotFoundRoute])
  ELSE returnResult(q, hardFallbackResult)

\* A request goes on as q: if it has come to TemplateEngine.render, render
\* is called and runs to its first await; when it is done its render call
\* is over.
goesOn(r, q) ==
  /\ requests' = [requests EXCEPT ![r] = q]
  /\ IF q.pc = "render"
     THEN callRender(r, SiteFrame(q).type, templateVars(q.templateContext))
     ELSE IF q.pc = "done"
     THEN /\ renders' = [renders EXCEPT ![r] = NoCall]
          /\ UNCHANGED <<compilerOptions, templateFiles, partialsDir, compiledTemplates,
                         partials, registration>>
     ELSE UNCHANGED engine
  /\ UNCHANGED <<siteRest, plugins, loading, constructed>>

\* handleRequest: the static file or, through renderContent, the first hook.
\* Requests are numbered in the order they arrive, and MaxEarly of them may
\* arrive before the plugins are loaded.
siteHandleRequest(r) ==
  /\ constructed
  /\ requests[r].pc = "idle"
  /\ \A earlier \in 1..(r - 1) : requests[earlier].pc # "idle"
  /\ loading.pc # "done" => r <= MaxEarly
  /\ \E p \in SitePaths :
       LET q == [NoRequest EXCEPT !.request = p, !.afterStartup = (loading.pc = "done")]
           normalized == normalizePath(p)
           fullPath == join(DefaultAssetsDir, normalized)
           file == staticFile(IF fullPath \in SiteAssets THEN "ok" ELSE "NotFound", fullPath)
       IN IF file # Null
          THEN goesOn(r, [q EXCEPT !.pc = "done",
                                   !.response = [content |-> file.content,
                                                 contentType |-> file.contentType,
                                                 status |-> 200]])
          ELSE goesOn(r, startRenderContent(
                           q, renderCall(contentSources, defaultContentType, normalized)))

\* processContent's loop, from the end of a transform hook; the iterator of
\* this.plugins.values() is live, so it sees a plugin set while it runs.
siteTransform(r) ==
  /\ requests[r].pc = "transform"
  /\ LET q == requests[r]
         name == plugins[q.i].name
         t == applyTransform(q.content, q.metadata,
                             pluginTransform(name, plugins[q.i].plugin, q.content))
     IN goesOn(r, toNextHook([q EXCEPT !.content = t.content,
                                       !.metadata = t.metadata,
                                       !.i = @ + 1,
                                       !.log = Append(@, SiteEvent("transform", q,
                                                 [plugin |-> name, input |-> q.content]))]))

\* renderContent's loop, from the end of an extendTemplate hook.
siteExtendTemplate(r) ==
  /\ requests[r].pc = "extendTemplate"
  /\ LET q == requests[r]
         name == plugins[q.i].name
     IN goesOn(r, toNextHook([q EXCEPT !.templateContext = pluginExtendTemplate(name, @),
                                       !.i = @ + 1,
                                       !.log = Append(@, SiteEvent("extendTemplate", q,
                                                 [plugin |-> name,
                                                  input |-> q.templateContext]))]))

\* renderContent, from the end of TemplateEngine.render: the page is
\* returned, or the error caught.
siteRendered(r) ==
  /\ requests[r].pc = "render"
  /\ renders[r].pc \in {"returned", "threw"}
  /\ LET q == [requests[r] EXCEPT !.log = Append(@, SiteEvent("render", requests[r],
                                                  [context |-> renders[r].context,
                                                   outcome |-> renders[r].pc]))]
     IN IF renders[r].pc = "returned"
        THEN goesOn(r, returnResult(q, [content |-> renders[r].result, status |-> 200]))
        ELSE goesOn(r, catchError(q, renders[r].error))

\* Before new SimplSite(config): the configuration and the files.
InitSite ==
  /\ contentSources = SiteSources
  /\ defaultContentType = TypeNames[1]
  /\ pluginConfigs = SitePluginConfigs
  /\ plugins = <<>>
  /\ request = <<>>
  /\ InitHandler
  /\ compilerOptions = [noEscape |-> FALSE]
  /\ templateFiles = [p \in TemplatePaths |->
                        IF p = layoutPath THEN File(RawLayout)
                        ELSE IF p = templatePath(TypeNames[1])
                        THEN File(ContentTemplate(TypeNames[1]))
                        ELSE File(ContentTemplate(TypeNames[2]))]
  /\ partialsDir = Absent
  /\ compiledTemplates = <<>>
  /\ partials = <<>>
  /\ registration = [pc |-> "done", k |-> 1]
  /\ renders = [c \in Callers |-> NoCall]
  /\ variant \in SiteVariants
  /\ contentFiles = SiteContentFiles
  /\ loading = [pc |-> "new", k |-> 1]
  /\ constructed = FALSE
  /\ requests = [r \in Callers |-> NoRequest]

NextSite ==
  \/ construct
  \/ importPlugin
  \/ \E r \in Callers : siteHandleRequest(r)
  \/ \E r \in Callers : siteTransform(r)
  \/ \E r \in Callers : siteExtendTemplate(r)
  \/ \E r \in Callers : templateExists(r)
  \/ \E r \in Callers : templateRead(r)
  \/ \E r \in Callers : layoutExists(r)
  \/ \E r \in Callers : layoutRead(r)
  \/ \E r \in Callers : siteRendered(r)

SpecSite == InitSite /\ [][NextSite]_vars

\* ------------------------------------------------------------------ history
Events(ev) == {k \in DOMAIN log : log[k].ev = ev}

\* The renderContent calls made so far: by handleRequest, and by a catch block.
TopCalls == {k \in Events("renderContent") : log[k].depth = 1}
Retries == {k \in Events("renderContent") : log[k].depth > 1}

\* The call a later event of the same depth belongs to.
CallOf(k) == log[Max({c \in Events("renderContent") : c < k /\ log[c].depth = log[k].depth})].arg

\* Reads of content files that found no file.
MissingReads == {k \in Events("readTextFile") : log[k].arg.outcome = "NotFound"}

IsPrefixOf(r, p) == \E n \in 0..Len(p) : SubSeq(p, 1, n) = r
Matching(p) == {k \in 1..Len(contentSources) : IsPrefixOf(contentSources[k].route, p)}
EndsInMd(p) == Len(p) >= 3 /\ SubSeq(p, Len(p) - 2, Len(p)) = Md
Suffixed(p) == IF EndsInMd(p) THEN p ELSE p \o Md

\* The page TemplateEngine.render makes of 404.md under the default content type.
IsNotFoundPage(c) ==
  /\ c.kind = "page"
  /\ c.template = defaultContentType
  /\ c.context.route = NotFoundRoute
  /\ \E k \in 1..Len(contentSources) :
       /\ contentSources[k].type = defaultContentType
       /\ c.context.content.file = contentSources[k].path \o <<"/">> \o NotFoundPath

\* ------------------------------------------------------------------ claims

\* C1: handleRequest never fails: whatever the static-asset read, the content
\* read, the hooks and the template do, it completes with a response of
\* status 200 or 404 and no error propagates to its caller.
HandleRequestNeverFails ==
  /\ pc # "failed"
  /\ thrown = Null
  /\ pc = "done" => response.status \in {200, 404}

\* C2: rendering a content path other than "404.md" whose file is absent
\* yields status 404 with the rendered 404 page or the hard-fallback literal,
\* never status 200 and never a failure.
AbsentContentYields404 ==
  \A k \in MissingReads :
    (log[k].depth = 1 /\ CallOf(k).path # NotFoundPath)
      => /\ pc # "failed"
         /\ thrown = Null
         /\ pc = "done" =>
              /\ response.status = 404
              /\ response.content = HardFallback \/ IsNotFoundPage(response.content)

AbsentContentRendered404Page ==
  /\ pc = "done"
  /\ \E k \in MissingReads : log[k].depth = 1 /\ CallOf(k).path # NotFoundPath
  /\ response.status = 404
  /\ IsNotFoundPage(response.content)

\* C3: renderContent re-enters itself at most once per top-level call, only
\* for "404.md", and a render of "404.md" whose file is absent never retries:
\* it ends in the hard-fallback literal with status 404, after exactly one
\* nested render when the path first asked for was another one.
NotFoundPageRetriesOnce ==
  /\ Len(frames) <= 2
  /\ Cardinality(Retries) <= 1
  /\ \A k \in Retries : log[k].arg.path = NotFoundPath
  /\ \A k \in MissingReads :
       CallOf(k).path = NotFoundPath
         => /\ \A r \in Retries : r < k
            /\ Cardinality(Retries) = log[k].depth - 1
            /\ pc = "done" =>
                 response = [content |-> HardFallback, contentType |-> HtmlContentType,
                             status |-> 404]

NotFoundPageAlsoAbsent ==
  /\ pc = "done"
  /\ \E k \in MissingReads : log[k].depth = 2 /\ CallOf(k).path = NotFoundPath
  /\ response.content = HardFallback

\* C4: handleRequest renders with the type of the first source, in
\* configuration order, whose route is a prefix of the normalized path, and
\* with the default content type and the full path if there is none.
FirstMatchingSourceRenders ==
  \A k \in TopCalls :
    LET call == log[k].arg
        M == Matching(originalPath)
    IN IF M = {}
       THEN call.type = defaultContentType /\ call.path = Suffixed(originalPath)
       ELSE call.type = contentSources[Min(M)].type

FirstMatchIsNotLongest ==
  \E k \in TopCalls, m, n \in Matching(originalPath) :
    /\ m < n
    /\ Len(contentSources[m].route) < Len(contentSources[n].route)
    /\ log[k].arg.type = contentSources[m].type

\* C5: when a source matches, the content path is the normalized path, with
\* ".md" appended unless it ends in ".md" already, less the matched route
\* prefix; the route is "/" and the normalized path; the file read is the
\* content path under the source's directory.
ContentPathStripsRoute ==
  \A k \in TopCalls :
    LET call == log[k].arg
        M == Matching(originalPath)
    IN M # {} =>
         LET source == contentSources[Min(M)]
         IN /\ source.route \o call.path = Suffixed(originalPath)
            /\ EndsInMd(originalPath) => Len(source.route) + Len(call.path) = Len(originalPath)
            /\ ~EndsInMd(originalPath) => EndsInMd(call.path)
            /\ call.route = <<"/">> \o originalPath
            /\ \A r \in Events("readTextFile") :
                 log[r].depth = 1 => log[r].arg.file = source.path \o <<"/">> \o call.path

RoutePrefixStripped ==
  \E k \in TopCalls, r \in Events("readTextFile") :
    /\ log[r].depth = 1
    /\ contentSources # <<>>
    /\ contentSources[1].route = <<"a", "/">>
    /\ originalPath = <<"a", "/", "a">>
    /\ log[r].arg.file = contentSources[1].path \o <<"/", "a", ".", "m", "d">>
\* C6: a static asset found at the normalized path is returned with status
\* 200 and its MIME type, and nothing of content rendering runs, even when
\* the path matches a content route; an absent asset is no error and the
\* request goes on to content rendering, answered as "text/html".
StaticAssetFirst ==
  \A k \in Events("readFile") :
    /\ log[k].arg.file = <<"assets", "/">> \o (IF TopCalls = {} THEN path ELSE originalPath)
    /\ log[k].arg.outcome = "ok" =>
         /\ pc = "done"
         /\ Len(log) = k
         /\ frames = <<>>
         /\ response.status = 200
         /\ response.content = [kind |-> "asset", file |-> <<"assets", "/">> \o path]
         /\ response.contentType =
              IF EndsInMd(path) /\ Len(path) > 3 /\ path[Len(path) - 3] # "/"
              THEN "text/markdown; charset=UTF-8" ELSE "application/octet-stream"
    /\ log[k].arg.outcome = "NotFound" =>
         /\ pc # "failed"
         /\ thrown = Null
         /\ pc # "route" => TopCalls # {}
         /\ pc = "done" => response.contentType = "text/html"

AssetShadowsContentRoute ==
  /\ pc = "done"
  /\ response.status = 200
  /\ response.content.kind = "asset"
  /\ response.contentType = "text/markdown; charset=UTF-8"
  /\ \E k \in Matching(path) : contentSources[k].route # <<>>

\* C7 as stated: for the request path "" or "/", whatever the sources, the
\* render is of index.md under the default content type.
RootAlwaysReadsDefaultIndex ==
  request \in {<<>>, <<"/">>} =>
    \A k \in TopCalls :
      /\ log[k].arg.type = defaultContentType
      /\ log[k].arg.path = Index \o Md

\* C7, amended: the request path "" or "/" is normalized to "index"; with no
\* asset there, index.md of the default source is read if no source's route
\* is a prefix of "index"; otherwise the first such source is the one used.
RootReadsIndex ==
  request \in {<<>>, <<"/">>} =>
    /\ pc # "idle" => path \in {Index, Index \o Md}
    /\ \A k \in Events("readFile") : log[k].arg.file = <<"assets", "/">> \o Index
    /\ \A k \in TopCalls :
         LET call == log[k].arg
             M == Matching(Index)
             type == IF M = {} THEN defaultContentType ELSE contentSources[Min(M)].type
             route == IF M = {} THEN <<>> ELSE contentSources[Min(M)].route
         IN /\ call.type = type
            /\ route \o call.path = Index \o Md
            /\ call.route = <<"/">> \o Index
            /\ \A r \in Events("readTextFile") :
                 log[r].depth = 1 =>
                   \E n \in 1..Len(contentSources) :
                     /\ contentSources[n].type = type
                     /\ log[r].arg.file = contentSources[n].path \o <<"/">> \o call.path

RootReadDefaultIndex ==
  /\ request = <<>>
  /\ contentSources # <<>>
  /\ Matching(Index) = {}
  /\ \E r \in Events("readTextFile"), n \in 1..Len(contentSources) :
       /\ log[r].depth = 1
       /\ contentSources[n].type = defaultContentType
       /\ log[r].arg.file = contentSources[n].path \o <<"/">> \o Index \o Md

\* The configured plugins that load and have a hook, in configuration order.
WithTransform(n) == n \in DOMAIN PluginRegistry /\ PluginRegistry[n].transform
WithMetadata(n) == n \in DOMAIN PluginRegistry /\ PluginRegistry[n].metadata
WithExtendTemplate(n) == n \in DOMAIN PluginRegistry /\ PluginRegistry[n].extendTemplate

\* The metadata after all transform hooks: the last writer of "x" wins.
ExpectedMetadata ==
  LET writers == SelectSeq(pluginConfigs, WithMetadata)
  IN [key \in {"x"} \cup {writers[n] : n \in 1..Len(writers)} |->
        IF key # "x" THEN "set"
        ELSE IF writers = <<>> THEN "frontmatter" ELSE writers[Len(writers)]]

\* The plugins whose hook ev has been called by the render at depth d, in order.
HookCalls(ev, d) ==
  LET calls == SelectSeq(log, LAMBDA e : e.ev = ev /\ e.depth = d)
  IN [n \in 1..Len(calls) |-> calls[n].arg.plugin]

HookEvents == Events("transform") \cup Events("extendTemplate")

\* C8: transform hooks and extendTemplate hooks run in configuration order,
\* each on the output of the one before; returned metadata is merged with
\* later writes winning; a plugin without the hook is skipped.
HooksRunInRegistrationOrder ==
  /\ \A d \in 1..2 :
       /\ IsPrefixOf(HookCalls("transform", d), SelectSeq(pluginConfigs, WithTransform))
       /\ IsPrefixOf(HookCalls("extendTemplate", d), SelectSeq(pluginConfigs, WithExtendTemplate))
  /\ \A k \in Events("transform") :
       \E n \in 1..Len(pluginConfigs) :
         /\ pluginConfigs[n] = log[k].arg.plugin
         /\ log[k].arg.input.chain = SelectSeq(SubSeq(pluginConfigs, 1, n - 1), WithTransform)
  /\ \A k \in Events("extendTemplate") :
       \E n \in 1..Len(pluginConfigs) :
         /\ pluginConfigs[n] = log[k].arg.plugin
         /\ log[k].arg.input.extended
              = SelectSeq(SubSeq(pluginConfigs, 1, n - 1), WithExtendTemplate)
         /\ log[k].arg.input.content.chain = SelectSeq(pluginConfigs, WithTransform)
         /\ log[k].arg.input.metadata = ExpectedMetadata
  /\ pc = "render" =>
       /\ templateContext.content.chain = SelectSeq(pluginConfigs, WithTransform)
       /\ templateContext.extended = SelectSeq(pluginConfigs, WithExtendTemplate)
       /\ templateContext.metadata = ExpectedMetadata

LaterPluginWins ==
  /\ pc = "render"
  /\ pluginConfigs = <<"A", "B">>
  /\ templateContext.metadata["x"] = "B"
  /\ templateContext.content.chain = <<"A", "B">>

\* C9: a failing hook aborts the render: no later hook and no template of
\* that render runs, and the response is a 404 with the rendered 404 page or
\* the hard-fallback literal, nothing of the content processed so far.
FailedHookAbortsRender ==
  \A k \in HookEvents :
    log[k].arg.outcome # "ok" =>
      /\ \A j \in HookEvents \cup Events("render") : j > k => log[j].depth > log[k].depth
      /\ \A j \in Events("return") :
           (j > k /\ log[j].depth = log[k].depth) => log[j].arg.status = 404
      /\ pc # "failed"
      /\ thrown = Null
      /\ pc = "done" =>
           /\ response.status = 404
           /\ \/ response.content = HardFallback
              \/ /\ IsNotFoundPage(response.content)
                 /\ log[k].arg.outcome = "NotFound"
                 /\ log[k].depth = 1
                 /\ CallOf(k).path # NotFoundPath
                 /\ \E r \in Retries : r > k

FailedHookAfterProgress ==
  /\ pc = "done"
  /\ response.content = HardFallback
  /\ \E k \in Events("transform") :
       /\ log[k].arg.outcome = "Error"
       /\ log[k].depth = 1
       /\ log[k].arg.input.chain # <<>>

\* C10: for a type no source has, getContent fails without reading a file,
\* and renderContent does not render the 404 page for it: the render ends in
\* the hard-fallback literal.
UnknownTypeIsNotRetried ==
  \A k \in Events("unknownContentType") :
    /\ \A n \in 1..Len(contentSources) : contentSources[n].type # log[k].arg
    /\ \A r \in Events("readTextFile") : log[r].depth # log[k].depth
    /\ \A r \in Retries : r < k
    /\ Len(log) = k =>
         /\ pc \in {"catch", "return"}
         /\ error.name # "NotFound"
         /\ pc = "return" => result = [content |-> HardFallback, status |-> 404]
    /\ \A j \in Events("return") :
         (j > k /\ log[j].depth = log[k].depth) => log[j].arg = [content |-> HardFallback, status |-> 404]
    /\ pc = "done" => response.content = HardFallback /\ response.status = 404

UnknownDefaultType ==
  /\ pc = "done"
  /\ response.content = HardFallback
  /\ \E k \in Events("unknownContentType") : log[k].depth = 1 /\ log[k].arg = defaultContentType

\* C14: renderContent's catch block renders the 404 page exactly when the
\* error is a NotFound and the path is not "404.md"; for every other error,
\* and for "404.md" under any content type, it returns the default error
\* message at once, without a nested render.
RetryExactlyOnNotFound ==
  [][pc = "catch" =>
       IF error.name = "NotFound" /\ Frame.path # NotFoundPath
       THEN /\ pc' = "getContent"
            /\ frames' = Append(frames, [path |-> NotFoundPath, type |-> defaultContentType,
                                         route |-> NotFoundRoute])
       ELSE /\ pc' = "return"
            /\ result' = [content |-> HardFallback, status |-> 404]
            /\ frames' = frames
            /\ log' = log]_vars

\* "404.md" under a content type that is not the default one is absent: the
\* default error message, no retry.
NotFoundPageOfOtherTypeAbsent ==
  /\ pc = "return"
  /\ Depth = 1
  /\ Frame.path = NotFoundPath
  /\ Frame.type # defaultContentType
  /\ error.name = "NotFound"
  /\ result = [content |-> HardFallback, status |-> 404]
  /\ Retries = {}

\* ---------------------------------------------------- TemplateEngine claims
\* The calls that read and compiled the file at path p themselves.
Compilers(p) == {c \in Callers : p \in renders[c].compiled}

\* C11: when two render calls both missed the cache for the same path and
\* both compiled it, and no file was written since they were called, the
\* cache holds exactly one entry for the path, the compilation of the file's
\* text, and each call's output is what a render on its own makes of that
\* file: the body for a template, the layout around the body for a layout.
RacingCompilesAgree ==
  \A p \in TemplatePaths :
    \A c, d \in Compilers(p) :
      (c # d /\ ~renders[c].dirty /\ ~renders[d].dirty) =>
        LET fn == compile(templateFiles[p].text, compilerOptions)
            r == renders[c]
        IN /\ Cardinality({k \in DOMAIN compiledTemplates : compiledTemplates[k].key = p}) = 1
           /\ cacheGet(compiledTemplates, p) = fn
           /\ p = templatePath(r.templateName) => r.body = Text(applyTemplate(fn, r.context))
           /\ p = layoutPath =>
                /\ r.pc = "returned"
                /\ r.result = Text(applyTemplate(fn, ("body" :> r.body.text) @@ r.context))
           /\ (renders[d].templateName = r.templateName /\ renders[d].context = r.context
                 /\ renders[d].pc = "returned" /\ r.pc = "returned") =>
                renders[d].result = r.result

\* Two calls have each compiled the template and the layout and returned.
BothCompiledTemplateAndLayout ==
  \E c, d \in Callers :
    /\ c # d
    /\ renders[c].pc = "returned" /\ renders[d].pc = "returned"
    /\ ~renders[c].dirty /\ ~renders[d].dirty
    /\ renders[c].compiled = {templatePath(TypeNames[1]), layoutPath}
    /\ renders[d].compiled = renders[c].compiled
    /\ Len(compiledTemplates) = 2

\* The texts of the example: the body, the body escaped, the layout around
\* an inner text.
PHi == <<"<", "p", ">", "h", "i", "<", "/", "p", ">">>
PHiEscaped ==
  <<"&", "l", "t", ";", "p", "&", "g", "t", ";", "h", "i",
    "&", "l", "t", ";", "/", "p", "&", "g", "t", ";">>
Wrapped(inner) == <<"<", "h", "t", "m", "l", ">">> \o inner \o <<"<", "/", "h", "t", "m", "l", ">">>

\* The calls that returned with no file written since they were called.
Settled == {c \in Callers : renders[c].pc = "returned" /\ ~renders[c].dirty}

\* C12, as the spec states it: with the layout "<html>{{body}}</html>" the
\* body "<p>hi</p>" is rendered as "<html><p>hi</p></html>".
LayoutPrintsBodyVerbatim ==
  \A c \in Settled :
    (/\ layoutPath \in renders[c].compiled
     /\ templateFiles[layoutPath] = File(EscapedLayout)
     /\ renders[c].body.text = PHi) => renders[c].result.text = Wrapped(PHi)

\* C12, amended: without a layout file the output is the body exactly; with
\* one it is the layout applied to the context extended with the body, where
\* {{body}} prints the body HTML-escaped unless the engine's compiler options
\* say noEscape, and {{{body}}} prints it as it is.
LayoutWrapsBody ==
  \A c \in Settled :
    LET r == renders[c]
        layout == templateFiles[layoutPath]
    IN /\ r.body.text = PHi
       /\ layout = Absent => r.result = r.body
       /\ layout # Absent => r.result.text \in {Wrapped(PHi), Wrapped(PHiEscaped)}
       /\ (layout # Absent /\ compilerOptions.noEscape) => r.result.text = Wrapped(PHi)
       /\ layoutPath \in r.compiled =>
            r.result.text = IF layout = File(EscapedLayout) /\ ~compilerOptions.noEscape
                            THEN Wrapped(PHiEscaped)
                            ELSE Wrapped(PHi)

\* A call compiled "<html>{{body}}</html>" under the default options and
\* returned the body escaped inside the layout.
EscapedBodyInLayout ==
  \E c \in Settled :
    /\ layoutPath \in renders[c].compiled
    /\ templateFiles[layoutPath] = File(EscapedLayout)
    /\ ~compilerOptions.noEscape
    /\ renders[c].result.text = Wrapped(PHiEscaped)

\* C16: on every call render first asks whether the template file exists;
\* if it does not, the call fails with "Template not found" and the cache
\* is left as it was, whether or not a compiled entry for the path is cached.
MissingTemplateFailsBeforeCache ==
  [][\A c \in Callers :
       (/\ renders[c].pc = "exists"
        /\ renders'[c].pc # "exists"
        /\ templateFiles[templatePath(renders[c].templateName)] = Absent) =>
         /\ renders'[c] = [renders[c] EXCEPT !.pc = "threw", !.error = TemplateNotFoundError]
         /\ renders[c].body = Null
         /\ renders[c].compiled = {}
         /\ compiledTemplates' = compiledTemplates]_vars

\* A call failed with "Template not found" for a path that is cached.
CachedTemplateNotFound ==
  \E c \in Callers :
    /\ renders[c].pc = "threw"
    /\ renders[c].error = TemplateNotFoundError
    /\ templatePath(renders[c].templateName) \in CachedPaths
    /\ templateFiles[templatePath(renders[c].templateName)] = Absent

\* The path a call is reading, if it is at a read.
Reading(c) ==
  IF renders[c].pc = "readTextFile" THEN {templatePath(renders[c].templateName)}
  ELSE IF renders[c].pc = "layoutReadTextFile" THEN {layoutPath}
  ELSE {}

\* C17, as the spec states it: an entry of the cache, once written, stays
\* as it is, so that what the file holds later never shows in an output.
CachedEntryNeverChanges ==
  [][\A p \in CachedPaths :
       /\ p \in {compiledTemplates'[k].key : k \in DOMAIN compiledTemplates'}
       /\ cacheGet(compiledTemplates', p) = cacheGet(compiledTemplates, p)]_vars

\* C17, amended: the set of cached paths never shrinks; an entry is written
\* only by a call that read the file and compiled it, as the compilation of
\* what it read; a call reads a file only after it missed the cache, and on
\* a hit prints with the cached function whatever the file holds now.  An
\* entry therefore changes only when a call that missed the cache before the
\* entry was written finishes its own read.
CacheGrowsByCompilesOnly ==
  [][/\ \A p \in CachedPaths : p \in {compiledTemplates'[k].key : k \in DOMAIN compiledTemplates'}
     /\ \A p \in TemplatePaths :
          cacheGet(compiledTemplates', p) # cacheGet(compiledTemplates, p) =>
            \E c \in Callers :
              /\ p \in Reading(c)
              /\ templateFiles[p] # Absent
              /\ cacheGet(compiledTemplates', p) = compile(templateFiles[p].text, compilerOptions)
              /\ renders'[c].compiled = renders[c].compiled \cup {p}
     /\ \A c \in Callers :
          LET r == renders[c]
              p == templatePath(r.templateName)
          IN /\ (r.pc = "exists" /\ renders'[c].pc = "readTextFile") => p \notin CachedPaths
             /\ (r.pc = "layoutExists" /\ renders'[c].pc = "layoutReadTextFile") =>
                  layoutPath \notin CachedPaths
             /\ (r.pc = "exists" /\ p \in CachedPaths /\ templateFiles[p] # Absent
                   /\ renders'[c].pc # r.pc) =>
                  /\ renders'[c].pc = "layoutExists"
                  /\ renders'[c].body =
                       Text(applyTemplate(cacheGet(compiledTemplates, p), r.context))
                  /\ renders'[c].compiled = r.compiled
             /\ (r.pc = "layoutExists" /\ layoutPath \in CachedPaths
                   /\ templateFiles[layoutPath] # Absent /\ renders'[c].pc # r.pc) =>
                  /\ renders'[c].pc = "returned"
                  /\ renders'[c].result =
                       Text(applyTemplate(cacheGet(compiledTemplates, layoutPath),
                                          ("body" :> r.body.text) @@ r.context))
                  /\ renders'[c].compiled = r.compiled]_vars

\* A call returned the output of a cached layout that is not what the
\* layout file holds now, without reading the file.
StaleLayoutServed ==
  \E c \in Settled :
    /\ layoutPath \notin renders[c].compiled
    /\ templateFiles[layoutPath] = File(RawLayout)
    /\ cacheGet(compiledTemplates, layoutPath) = compile(EscapedLayout, compilerOptions)
    /\ ~compilerOptions.noEscape
    /\ renders[c].result.text = Wrapped(PHiEscaped)

\* The names of this.plugins, in Map order.
pluginNames == [k \in 1..Len(plugins) |-> plugins[k].name]

\* Whether the site can load the plugin of this name.
loads(name) == variant # "importNoDir" /\ name \in DOMAIN PluginRegistry

\* C13: a plugin that fails to load at startup is skipped and nothing else
\* is lost: the constructor returns, and once initializePlugins is through,
\* this.plugins holds every configured plugin that loads, each with its
\* class's hooks, in configuration order.
FailedPluginSkipped ==
  /\ loading.pc # "new" => constructed
  /\ constructed /\ loading.pc = "done" =>
        /\ pluginNames = SelectSeq(pluginConfigs, loads)
        /\ \A k \in 1..Len(plugins) : plugins[k].plugin = PluginRegistry[plugins[k].name]

\* C13 witness: two plugins are registered around one that failed, by
\* imports that ended while a request was being served.
LoadedAroundFailure ==
  /\ constructed
  /\ loading.pc = "done"
  /\ variant = "import"
  /\ pluginConfigs = <<"A", "missing", "B">>
  /\ pluginNames = <<"A", "B">>
  /\ \E r \in Callers : requests[r].pc = "done" /\ ~requests[r].afterStartup

\* The calls one renderContent call of a request made, in the order it made
\* them, and the plugins whose hook of one kind it called.
EventsAt(r, d) == SelectSeq(requests[r].log, LAMBDA e : e.depth = d)
HooksCalled(es, ev) ==
  LET hooks == SelectSeq(es, LAMBDA e : e.ev = ev)
  IN [k \in 1..Len(hooks) |-> hooks[k].arg.plugin]
StageOf(ev) ==
  CASE ev = "getContent" -> 1
    [] ev = "transform" -> 2
    [] ev = "extendTemplate" -> 3
    [] ev = "render" -> 4
RegisteredAt(name) == CHOOSE k \in 1..Len(pluginConfigs) : pluginConfigs[k] = name
PluginsWith(hook) == SelectSeq(pluginNames, LAMBDA n : PluginRegistry[n][hook])

\* A call of a request starts its next stage only after the stages before
\* it: e is the call it makes now, es the calls the same renderContent call
\* made before.
InSequence(e, es, afterStartup) ==
  LET ts == HooksCalled(es, "transform")
      xs == HooksCalled(es, "extendTemplate")
      last == es[Len(es)]
  IN /\ (e.ev = "getContent") = (es = <<>>)
     /\ e.ev # "getContent" =>
          /\ es[1].ev = "getContent"
          /\ StageOf(last.ev) <= StageOf(e.ev)
          /\ last.ev # "render"
          /\ last.ev = e.ev => RegisteredAt(last.arg.plugin) < RegisteredAt(e.arg.plugin)
     /\ e.ev = "transform" =>
          /\ e.arg.input.file = es[1].arg
          /\ e.arg.input.chain = ts
     /\ e.ev = "extendTemplate" =>
          /\ e.arg.input.content.file = es[1].arg
          /\ e.arg.input.content.chain = ts
          /\ e.arg.input.extended = xs
          /\ afterStartup => ts = PluginsWith("transform")
     /\ e.ev = "render" =>
          /\ e.arg.context.content = es[1].arg \o ts
          /\ e.arg.context.extended = xs
          /\ afterStartup => ts = PluginsWith("transform") /\ xs = PluginsWith("extendTemplate")

\* TemplateEngine.render is called by a request that is through its hooks,
\* on the context they left; the body is rendered before the layout, and
\* the output is the layout around that body.
EngineInSequence(r) ==
  LET c == renders[r]
      called == renders'[r]
      q == requests'[r]
  IN /\ (called.pc # "idle") = (q.pc = "render")
     /\ called.pc = "exists" /\ c.pc # "exists" =>
          /\ called.templateName = SiteFrame(q).type
          /\ called.context = templateVars(q.templateContext)
          /\ called.body = Null /\ called.result = Null
     /\ called.body # c.body /\ called.body # Null =>
          /\ c.pc \in {"exists", "readTextFile"}
          /\ called.result = Null
          /\ called.body = Text(applyTemplate(compile(ContentTemplate(c.templateName),
                                                      compilerOptions), c.context))
     /\ called.result # c.result /\ called.result # Null =>
          /\ c.pc \in {"layoutExists", "layoutReadTextFile"}
          /\ c.body # Null
          /\ called.body = c.body
          /\ called.result = Text(applyTemplate(compile(RawLayout, compilerOptions),
                                                layoutContext(c.context, c.body.text)))

\* C15: within one request the stages run in sequence: the content is
\* loaded, then the transform hooks run in registration order, each on the
\* content the one before returned, then the extendTemplate hooks in
\* registration order, each on the context the one before returned and all
\* of them on the content of the last transform, then the body template is
\* rendered on the context of the last extendTemplate, then the layout
\* around that body; whatever a request does next follows what it has done.
StagesRunInSequence ==
  [][\A r \in Callers :
       /\ requests'[r].log # requests[r].log =>
            LET calls == requests'[r].log
                e == calls[Len(calls)]
            IN /\ SubSeq(calls, 1, Len(calls) - 1) = requests[r].log
               /\ InSequence(e, EventsAt(r, e.depth), requests[r].afterStartup)
       /\ renders'[r] # renders[r] => EngineInSequence(r)]_vars

\* C15 witness: a request went through two transform hooks, two
\* extendTemplate hooks, the body template and the layout while another
\* request was between its own hooks.
AllStagesRan ==
  \E r, o \in Callers :
    /\ requests[r].pc = "render"
    /\ renders[r].pc = "returned"
    /\ HooksCalled(requests[r].log, "transform") = <<"A", "B">>
    /\ HooksCalled(requests[r].log, "extendTemplate") = <<"A", "B">>
    /\ requests[o].pc = "extendTemplate"
    /\ requests[o].i = 2

\* The renderContent call that answers a request for p, if one does: the
\* call handleRequest makes or, if its file is absent, the call for the 404
\* page.
AnsweringCall(p) ==
  LET first == renderCall(contentSources, defaultContentType, normalizePath(p))
      retry == [path |-> NotFoundPath, type |-> defaultContentType, route |-> NotFoundRoute]
      FileOf(call) == join(contentSources[findSource(contentSources, call.type)].path, call.path)
  IN IF FileOf(first) \in contentFiles THEN [call |-> first, file |-> FileOf(first), status |-> 200]
     ELSE IF FileOf(retry) \in contentFiles
     THEN [call |-> retry, file |-> FileOf(retry), status |-> 404]
     ELSE Null

\* The page of a call whose transform hooks were those of ts and whose
\* extendTemplate hooks were those of es: the type's template in the layout.
PageOf(call, file, ts, es) ==
  LET context == [content |-> file \o ts,
                  x |-> <<IF ts = <<>> THEN "frontmatter" ELSE ts[Len(ts)]>>,
                  route |-> call.route,
                  siteTitle |-> <<DefaultSiteTitle>>,
                  extended |-> es]
      body == applyTemplate(compile(templateFiles[templatePath(call.type)].text,
                                    compilerOptions), context)
  IN Text(applyTemplate(compile(templateFiles[layoutPath].text, compilerOptions),
                        ("body" :> body) @@ context))

\* The response to a request for p served alone by a site with these hooks.
ResponseAlone(p, ts, es) ==
  LET asset == join(DefaultAssetsDir, normalizePath(p))
      answer == AnsweringCall(p)
  IN IF asset \in SiteAssets
     THEN [content |-> [kind |-> "asset", file |-> asset], contentType |-> mimeType(asset),
           status |-> 200]
     ELSE IF answer = Null
     THEN [content |-> HardFallback, contentType |-> HtmlContentType, status |-> 404]
     ELSE [content |-> PageOf(answer.call, answer.file, ts, es),
           contentType |-> HtmlContentType, status |-> answer.status]

\* What a hook or the template engine was given belongs to the request
\* for p.
OwnInput(e, p) ==
  LET answer == AnsweringCall(p)
  IN /\ answer # Null
     /\ e.ev = "getContent" => e.arg = answer.file
     /\ e.ev = "transform" => e.arg.input.file = answer.file
     /\ e.ev = "extendTemplate" =>
           /\ e.arg.input.content.file = answer.file
           /\ e.arg.input.route = answer.call.route
     /\ e.ev = "render" =>
           /\ SubSeq(e.arg.context.content, 1, Len(answer.file)) = answer.file
           /\ e.arg.context.route = answer.call.route

\* C18: requests are isolated from each other: whatever is interleaved with
\* it, every hook and every render call of a request is given that request's
\* own content and route, and the response it ends with is the one it would
\* get alone from the hooks it ran, which for a request that arrived after
\* the plugins were loaded are the hooks of all of them, so that such a
\* request gets the response of every earlier one for the same path.
RequestsIsolated ==
  [][\A r \in Callers :
       LET q == requests'[r]
       IN /\ q.log # requests[r].log => OwnInput(q.log[Len(q.log)], q.request)
          /\ q.pc = "done" /\ requests[r].pc # "done" =>
               /\ q.response = ResponseAlone(q.request, HooksCalled(q.log, "transform"),
                                             HooksCalled(q.log, "extendTemplate"))
               /\ q.afterStartup =>
                    q.response = ResponseAlone(q.request, PluginsWith("transform"),
                                               PluginsWith("extendTemplate"))
               /\ \A o \in Callers :
                    /\ requests[o].pc = "done"
                    /\ requests[o].afterStartup
                    /\ q.afterStartup
                    /\ requests[o].request = q.request
                    => requests[o].response = q.response]_vars

\* C18 witness: a request that arrived second, after the plugins were
\* loaded, has been answered with the 404 page by all hooks and the engine
\* while the first, for another page, is still between its hooks.
InterleavedRequestAnswered ==
  /\ requests[1].request = <<"a">>
  /\ requests[1].pc = "extendTemplate"
  /\ requests[1].i = 2
  /\ requests[2].request = <<"b">>
  /\ requests[2].pc = "done"
  /\ requests[2].afterStartup
  /\ requests[2].response.status = 404
  /\ HooksCalled(requests[2].log, "transform") = <<"A", "B">>
  /\ HooksCalled(requests[2].log, "extendTemplate") = <<"A", "B">>

\* C19: every request handled after the constructor has returned runs its
\* transform and extendTemplate chains over the complete set of plugins
\* that load: once plugin loading is through, every page that was rendered
\* went through the hooks of all of them.
RequestsRunAllPlugins ==
  \A r \in Callers :
    LET q == requests[r]
    IN /\ q.pc # "idle" => constructed
       /\ q.pc = "done" /\ loading.pc = "done" /\ q.log # <<>> =>
             /\ HooksCalled(q.log, "transform") = PluginsWith("transform")
             /\ HooksCalled(q.log, "extendTemplate") = PluginsWith("extendTemplate")

\* C20: partial registration, started by the constructor, is complete
\* before any template is rendered, and it does not fail unhandled: no call
\* of render has begun while registerPartials is not through, and the
\* promise of registerPartials, which nothing holds, is never rejected.
PartialsRegisteredBeforeRender ==
  /\ \A c \in Callers : renders[c].pc # "idle" => registration.pc = "done"
  /\ registration.pc # "rejected"

====
